---- MODULE Spec2Model ----
(***************************************************************************)
(* Model of static/js/index.js of key_sentence_extractor: the page script  *)
(* that resizes the panels by dragging separator bars (Resizer), restyles  *)
(* the drop target, and uploads the selected file and then navigates to    *)
(* the results page (Uploader).                                            *)
(*                                                                         *)
(* The script runs on the page's single UI thread: every handler runs to   *)
(* completion, so one action is one handler invocation (or, for a DOM      *)
(* event, the run of all the handlers registered for that event).          *)
(***************************************************************************)
EXTENDS Integers, Sequences, FiniteSets, TLC

VARIABLES
    dragging,        \* index.js:1   legacy flag of #dragbar
    col_dragging,    \* index.js:27  flag of #col-dragbar
    row_dragging,    \* index.js:45  flag of #row-dragbar
    moveHandlers,    \* document-level mousemove handlers, in registration order
    pdfWidth,        \* inline style width of #pdf-container ("" = never set)
    pdfPage,         \* property `page` of the #pdf-container element
    leftWidth,       \* inline style width of #container-left   (percent)
    rightWidth,      \* inline style width of #container-right  (percent)
    ckpHeight,       \* inline style height of #ckp-list        (percent)
    plotHeight,      \* inline style height of #embedding-plot  (percent)
    lastEvent,       \* the DOM event whose handlers ran last (observation only)
    viewport,        \* window.innerWidth and window.innerHeight
    dropStyle,       \* inline border and background of .drop ("" = never set)
    contColor,       \* inline color of .cont ("" = never set)
    lastDropEvent,   \* the drag event on the input handled last (observation only)
    href,            \* window.location.href of the loaded document
    loaded,          \* FALSE once a navigation has replaced the document
    uploads,         \* one record per fetch() issued by handleFileSelect
    navigations,     \* the assignments made to window.location.href, in order
    consoleLog       \* diagnostic entries written by the script

resizerVars == <<dragging, col_dragging, row_dragging, moveHandlers, pdfWidth,
                 pdfPage, leftWidth, rightWidth, ckpHeight, plotHeight, lastEvent,
                 viewport>>
dropVars == <<dropStyle, contColor, lastDropEvent>>
uploaderVars == <<href, loaded, uploads, navigations, consoleLog>>
vars == <<resizerVars, dropVars, uploaderVars>>

----------------------------------------------------------------------------
(* Bounds of the model *)

\* mousedown registers one more mousemove handler each time; at most this many
MaxHandlers == 2
\* pointer coordinates are the multiples of 300 px up to 300 * MaxTick
MaxTick == 4
\* file-input change events per page load
MaxUploads == 2

PageCoords == {300 * k : k \in 0..MaxTick}
\* window.innerWidth and window.innerHeight: a landscape and a portrait window
\* (the window keeps its size while the page is open)
Viewports == {[innerWidth |-> 1000, innerHeight |-> 800],
              [innerWidth |-> 800, innerHeight |-> 1000]}

----------------------------------------------------------------------------
(* Numbers.  The script computes with IEEE doubles; the model computes with  *)
(* exact fractions n/d in lowest terms.  For the coordinates and viewport    *)
(* extents drawn here (multiples of 300 over 800 and 1000) every quotient,   *)
(* product and difference below is exactly representable as a double, so     *)
(* the two agree.                                                            *)

RECURSIVE GCD(_, _)
GCD(a, b) == IF b = 0 THEN a ELSE GCD(b, a % b)

Abs(a) == IF a < 0 THEN -a ELSE a

\* the number n/d, d > 0, in lowest terms
Frac(n, d) == LET g == GCD(Abs(n), d) IN [n |-> n \div g, d |-> d \div g]

\* an inline style that the script has not set
NoExtent == [n |-> 0, d |-> 0]

\* index.js:34, :52   (position / viewport_extent) * 100
Percentage(position, extent) == Frac(100 * position, extent)

\* the complement computed without the subtraction: both panels get the same share
Complement_same(percentage) == percentage

\* index.js:35, :53   100 - percentage
Complement(percentage) == Frac(100 * percentage.d - percentage.n, percentage.d)

\* index.js:38-39, :55-56   $(el).css("width" | "height", number + "%"):
\* jQuery's width/height setter stores Math.max(0, number) followed by the unit,
\* so a negative extent is stored as "0%"
CssExtent(number) == IF number.n < 0 THEN Frac(0, 1) ELSE number

\* extents a and b (both set) add up to 100 percent
SumsTo100(a, b) ==
    /\ a.d > 0 /\ b.d > 0
    /\ a.n * b.d + b.n * a.d = 100 * a.d * b.d

\* the extent "k%"
Pct(k) == Frac(k, 1)

----------------------------------------------------------------------------
(* Resizer: index.js:1-69 *)

\* the styles the mousemove handlers write
Dom == [pdf |-> pdfWidth, left |-> leftWidth, right |-> rightWidth,
        ckp |-> ckpHeight, plot |-> plotHeight]

\* the mousemove events
MoveEvents == [pageX : PageCoords, pageY : PageCoords]

\* index.js:6-16   the handler registered by #dragbar's mousedown
dragbarMousemove(dom, e) ==
    IF dragging
    THEN LET percentage == Percentage(e.pageX, viewport.innerWidth)
             contLeftPercentage == Complement(percentage)
         IN [dom EXCEPT !.pdf = "0%",
                        !.left = CssExtent(percentage),
                        !.right = CssExtent(contLeftPercentage)]
    ELSE dom

\* the col handler without its `if (col_dragging)` gate
colDragbarMousemove_ungated(dom, e) ==
    LET percentage == Percentage(e.pageX, viewport.innerWidth)
        contLeftPercentage == Complement(percentage)
    IN [dom EXCEPT !.pdf = "0%",
                   !.left = CssExtent(percentage),
                   !.right = CssExtent(contLeftPercentage)]

\* the sum of two extents, the first possibly unset
AddExtent(a, b) == IF a.d = 0 THEN b ELSE Frac(a.n * b.d + b.n * a.d, a.d * b.d)

\* the col handler setting the left width relative to the current one ("+=")
colDragbarMousemove_relative(dom, e) ==
    IF col_dragging
    THEN LET percentage == Percentage(e.pageX, viewport.innerWidth)
             contLeftPercentage == Complement(percentage)
         IN [dom EXCEPT !.pdf = "0%",
                        !.left = CssExtent(AddExtent(dom.left, percentage)),
                        !.right = CssExtent(contLeftPercentage)]
    ELSE dom

\* index.js:32-41   the handler registered by #col-dragbar's mousedown
colDragbarMousemove(dom, e) ==
    IF col_dragging
    THEN LET percentage == Percentage(e.pageX, viewport.innerWidth)
             contLeftPercentage == Complement(percentage)
         IN [dom EXCEPT !.pdf = "0%",
                        !.left = CssExtent(percentage),
                        !.right = CssExtent(contLeftPercentage)]
    ELSE dom

\* index.js:50-58   the handler registered by #row-dragbar's mousedown
rowDragbarMousemove(dom, e) ==
    IF row_dragging
    THEN LET percentage == Percentage(e.pageY, viewport.innerHeight)
             contBtmPercentage == Complement(percentage)
         IN [dom EXCEPT !.ckp = CssExtent(percentage),
                        !.plot = CssExtent(contBtmPercentage)]
    ELSE dom

\* jQuery runs the handlers bound to an event in the order they were bound
RECURSIVE RunMoveHandlers(_, _, _)
RunMoveHandlers(handlers, dom, e) ==
    IF handlers = <<>> THEN dom
    ELSE LET h == Head(handlers)
             next == IF h = "dragbar" THEN dragbarMousemove(dom, e)
                     ELSE IF h = "col-dragbar" THEN colDragbarMousemove(dom, e)
                     ELSE rowDragbarMousemove(dom, e)
         IN RunMoveHandlers(Tail(handlers), next, e)

\* index.js:2-17   mousedown on #dragbar
dragbarMousedown ==
    /\ loaded
    /\ Len(moveHandlers) < MaxHandlers
    /\ dragging' = TRUE
    /\ moveHandlers' = Append(moveHandlers, "dragbar")
    /\ lastEvent' = "mousedown"
    /\ UNCHANGED <<col_dragging, row_dragging, pdfWidth, pdfPage, leftWidth,
                   rightWidth, ckpHeight, plotHeight,
                   viewport>>
    /\ UNCHANGED <<dropVars, uploaderVars>>

\* index.js:28-42   mousedown on #col-dragbar
colDragbarMousedown ==
    /\ loaded
    /\ Len(moveHandlers) < MaxHandlers
    /\ col_dragging' = TRUE
    /\ moveHandlers' = Append(moveHandlers, "col-dragbar")
    /\ lastEvent' = "mousedown"
    /\ UNCHANGED <<dragging, row_dragging, pdfWidth, pdfPage, leftWidth,
                   rightWidth, ckpHeight, plotHeight,
                   viewport>>
    /\ UNCHANGED <<dropVars, uploaderVars>>

\* index.js:46-59   mousedown on #row-dragbar
rowDragbarMousedown ==
    /\ loaded
    /\ Len(moveHandlers) < MaxHandlers
    /\ row_dragging' = TRUE
    /\ moveHandlers' = Append(moveHandlers, "row-dragbar")
    /\ lastEvent' = "mousedown"
    /\ UNCHANGED <<dragging, col_dragging, pdfWidth, pdfPage, leftWidth,
                   rightWidth, ckpHeight, plotHeight,
                   viewport>>
    /\ UNCHANGED <<dropVars, uploaderVars>>

\* a mousemove reaching the document: every registered handler runs
documentMousemove(e) ==
    /\ loaded
    /\ \E dom \in {RunMoveHandlers(moveHandlers, Dom, e)} :
          /\ pdfWidth' = dom.pdf
          /\ leftWidth' = dom.left
          /\ rightWidth' = dom.right
          /\ ckpHeight' = dom.ckp
          /\ plotHeight' = dom.plot
    /\ lastEvent' = "mousemove"
    /\ UNCHANGED <<dragging, col_dragging, row_dragging, moveHandlers, pdfPage,
                   viewport>>
    /\ UNCHANGED <<dropVars, uploaderVars>>

Mousemove == \E e \in MoveEvents : documentMousemove(e)

\* the first mouseup handler without its .css("width", "100%")
legacyMouseup_withoutRestore == [dragging |-> FALSE, pdf |-> pdfWidth, page |-> "1"]

\* index.js:19-23   the first mouseup handler bound to the document:
\* the flag, the width and the page it leaves
legacyMouseup == [dragging |-> FALSE, pdf |-> "100%", page |-> "1"]

\* index.js:62-69   the second mouseup handler bound to the document:
\* the flags and the pdf-container width it leaves, given the width before it
colRowMouseup(pdf) ==
    IF col_dragging
    THEN [col |-> FALSE, row |-> row_dragging, pdf |-> "100%"]
    ELSE IF row_dragging
    THEN [col |-> col_dragging, row |-> FALSE, pdf |-> pdf]
    ELSE [col |-> col_dragging, row |-> row_dragging, pdf |-> pdf]

\* a mouseup reaching the document: both handlers run, in the order bound
documentMouseup ==
    /\ loaded
    /\ LET first == legacyMouseup
           second == colRowMouseup(first.pdf)
       IN /\ dragging' = first.dragging
          /\ pdfPage' = first.page
          /\ col_dragging' = second.col
          /\ row_dragging' = second.row
          /\ pdfWidth' = second.pdf
    /\ lastEvent' = "mouseup"
    /\ UNCHANGED <<moveHandlers, leftWidth, rightWidth, ckpHeight, plotHeight,
                   viewport>>
    /\ UNCHANGED <<dropVars, uploaderVars>>

ResizerInit ==
    /\ dragging = FALSE
    /\ col_dragging = FALSE
    /\ row_dragging = FALSE
    /\ moveHandlers = <<>>
    /\ pdfWidth = ""
    /\ pdfPage = "undefined"
    /\ leftWidth = NoExtent
    /\ rightWidth = NoExtent
    /\ ckpHeight = NoExtent
    /\ plotHeight = NoExtent
    /\ lastEvent = "load"
    /\ viewport \in Viewports

ResizerNext ==
    \/ dragbarMousedown
    \/ colDragbarMousedown
    \/ rowDragbarMousedown
    \/ Mousemove
    \/ documentMouseup

----------------------------------------------------------------------------
(* DropBox: index.js:72-91.  The drop target is the file input. *)

\* index.js:75-81   the style set on dragenter
HoverStyle == [border |-> "4px dashed #09f",
               background |-> "rgba(0, 153, 255, .05)",
               color |-> "#09f"]

\* index.js:84-90   the style set on dragleave, dragend, mouseout and drop
IdleStyle == [border |-> "3px dashed #DADFE3",
              background |-> "transparent",
              color |-> "#8E99A5"]

\* index.js:83   the events the second handler is bound to
LeaveEvents == {"dragleave", "dragend", "mouseout", "drop"}

\* index.js:74-82   dragenter on the input
inputDragenter ==
    /\ loaded
    /\ dropStyle' = [border |-> HoverStyle.border,
                     background |-> HoverStyle.background]
    /\ contColor' = HoverStyle.color
    /\ lastDropEvent' = "dragenter"
    /\ UNCHANGED <<resizerVars, uploaderVars>>

\* the second handler bound to "dragleave dragend mouseout" only
inputLeave_withoutDrop(ev) ==
    /\ loaded
    /\ IF ev = "drop"
       THEN UNCHANGED <<dropStyle, contColor>>
       ELSE /\ dropStyle' = [border |-> IdleStyle.border,
                             background |-> IdleStyle.background]
            /\ contColor' = IdleStyle.color
    /\ lastDropEvent' = ev
    /\ UNCHANGED <<resizerVars, uploaderVars>>

\* index.js:83-91   dragleave, dragend, mouseout or drop on the input
inputLeave(ev) ==
    /\ loaded
    /\ dropStyle' = [border |-> IdleStyle.border,
                     background |-> IdleStyle.background]
    /\ contColor' = IdleStyle.color
    /\ lastDropEvent' = ev
    /\ UNCHANGED <<resizerVars, uploaderVars>>

Leave == \E ev \in LeaveEvents : inputLeave(ev)

DropInit ==
    /\ dropStyle = [border |-> "", background |-> ""]
    /\ contColor = ""
    /\ lastDropEvent = "none"

DropNext ==
    \/ inputDragenter
    \/ Leave

----------------------------------------------------------------------------
(* Uploader: index.js:93-105 *)

PageURLs == {"http://localhost:5000/", "http://127.0.0.1:5000/"}

\* what can come back for a POST /upload_file: a 2xx response, a non-2xx
\* response, or no response at all (transport error)
Responses == {"ok", "http_error", "network_error"}

\* handleFileSelect with the navigation outside .then(): it navigates at once
handleFileSelect_navigatesAtOnce(hasFile) ==
    /\ loaded
    /\ Len(uploads) < MaxUploads
    /\ uploads' = Append(uploads, [file |-> hasFile, state |-> "pending",
                                   response |-> "none"])
    /\ navigations' = Append(navigations, [upload |-> Len(uploads) + 1,
                                           to |-> href \o "get_key_phrases"])
    /\ UNCHANGED <<href, loaded, consoleLog>>
    /\ UNCHANGED <<resizerVars, dropVars>>

\* index.js:93-103   handleFileSelect, the change handler of #upload-file:
\* the form is posted whatever the selection holds (hasFile = FALSE is a change
\* event with an empty selection); the navigation waits in .then()
handleFileSelect(hasFile) ==
    /\ loaded
    /\ Len(uploads) < MaxUploads
    /\ uploads' = Append(uploads, [file |-> hasFile, state |-> "pending",
                                   response |-> "none"])
    /\ UNCHANGED <<href, loaded, navigations, consoleLog>>
    /\ UNCHANGED <<resizerVars, dropVars>>

Change == \E hasFile \in BOOLEAN : handleFileSelect(hasFile)

\* index.js:97-100   the promise returned by fetch(): fulfilled by any HTTP
\* response, rejected by a transport error alone
fetchSettles(i, response) ==
    /\ loaded
    /\ uploads[i].state = "pending"
    /\ uploads' = [uploads EXCEPT
                     ![i].response = response,
                     ![i].state = IF response = "network_error"
                                  THEN "rejected" ELSE "fulfilled"]
    /\ UNCHANGED <<href, loaded, navigations, consoleLog>>
    /\ UNCHANGED <<resizerVars, dropVars>>

Settle == \E i \in DOMAIN uploads, response \in Responses : fetchSettles(i, response)

\* index.js:100-102   the .then() callback of upload i; a rejected promise has
\* no handler (there is no second argument and no .catch()), so nothing runs
thenCallback(i) ==
    /\ loaded
    /\ uploads[i].state = "fulfilled"
    /\ navigations' = Append(navigations,
                             [upload |-> i, to |-> href \o "get_key_phrases"])
    /\ uploads' = [uploads EXCEPT ![i].state = "handled"]
    /\ UNCHANGED <<href, loaded, consoleLog>>
    /\ UNCHANGED <<resizerVars, dropVars>>

Then == \E i \in DOMAIN uploads : thenCallback(i)

\* the browser replaces the document by the one last assigned to
\* window.location.href; the script and its pending requests end with it
navigationCommits ==
    /\ loaded
    /\ navigations # <<>>
    /\ loaded' = FALSE
    /\ UNCHANGED <<href, uploads, navigations, consoleLog>>
    /\ UNCHANGED <<resizerVars, dropVars>>

UploaderNext ==
    \/ Change
    \/ Settle
    \/ Then
    \/ navigationCommits

\* href is the URL of the document the script runs in
UploaderInit ==
    /\ href \in PageURLs
    /\ loaded = TRUE
    /\ uploads = <<>>
    /\ navigations = <<>>
    /\ consoleLog = <<>>

Init == ResizerInit /\ DropInit /\ UploaderInit

Next == ResizerNext \/ DropNext \/ UploaderNext

Spec == Init /\ [][Next]_vars

\* the resizer alone: pointer events on a page on which no file is selected
ResizerOnlyInit == Init /\ href = "http://localhost:5000/"
SpecResizer == ResizerOnlyInit /\ [][ResizerNext]_vars

\* the uploader alone: file selections on a page on which no bar is touched
SpecUploader == Init /\ [][UploaderNext]_vars

\* the drop box: drag events on the file input and the uploads they lead to
DropBoxNext == DropNext \/ UploaderNext
SpecDropBox == Init /\ [][DropBoxNext]_vars

----------------------------------------------------------------------------
(* Uploader properties, checked under SpecUploader *)

\* the navigations that the .then() of upload i made
NavigationsOf(i) == {k \in DOMAIN navigations : navigations[k].upload = i}

Failed(i) == uploads[i].response \in {"http_error", "network_error"}

\* C1: an upload whose response is successful makes the browser navigate to
\* currentURL + "get_key_phrases" exactly once, once its .then() has run, and no
\* upload navigates before the response to its POST /upload_file has arrived.
C1_NavigatesOnceAfterResponse ==
    \A i \in DOMAIN uploads :
        /\ Cardinality(NavigationsOf(i)) <= 1
        /\ \A k \in NavigationsOf(i) :
              /\ uploads[i].response # "none"
              /\ navigations[k].to = href \o "get_key_phrases"
        /\ (uploads[i].response = "ok" /\ uploads[i].state = "handled")
              => Cardinality(NavigationsOf(i)) = 1

\* one selection, answered successfully, has navigated once to the results URL
C1_Witness ==
    /\ Len(uploads) = 1
    /\ uploads[1].file
    /\ uploads[1].response = "ok"
    /\ uploads[1].state = "handled"
    /\ Len(navigations) = 1
    /\ navigations[1].to = "http://localhost:5000/get_key_phrases"

\* C2: an upload that failed (transport error or non-2xx response) causes no
\* navigation.
C2_NoNavigationOnFailure ==
    \A i \in DOMAIN uploads : Failed(i) => NavigationsOf(i) = {}

\* C3: every failed upload has produced exactly one diagnostic log entry, once
\* the handlers of its promise have run (a rejected promise has none to run).
C3_OneLogEntryPerFailure ==
    Len(consoleLog) =
        Cardinality({i \in DOMAIN uploads :
                        Failed(i) /\ uploads[i].state \in {"handled", "rejected"}})

\* C9: a change event with an empty selection issues no POST /upload_file (and
\* so causes no navigation): every request issued carries a file.
C9_EmptySelectionNotSubmitted ==
    \A i \in DOMAIN uploads : uploads[i].file

----------------------------------------------------------------------------
(* Resizer properties, checked under SpecResizer *)

\* C4: after any pointer-up all three drag flags are false, and pdf-container
\* width is "100%" if a column drag had been active.
C4_ReleaseClearsAllFlags ==
    [][documentMouseup =>
         /\ ~dragging' /\ ~col_dragging' /\ ~row_dragging'
         /\ (col_dragging \/ dragging) => pdfWidth' = "100%"]_vars

\* C5: at most one of col_dragging and row_dragging is true.
C5_AtMostOneAxis == ~(col_dragging /\ row_dragging)

\* C6: after every pointer-move handled while a column drag is active,
\* container-left width + container-right width = 100 and pdf-container width
\* is "0%".
C6_ColumnMoveSumsTo100 ==
    (lastEvent = "mousemove" /\ col_dragging)
        => (SumsTo100(leftWidth, rightWidth) /\ pdfWidth = "0%")

\* C7: after every pointer-move handled while a row drag is active, ckp-list
\* height + embedding-plot height = 100.
C7_RowMoveSumsTo100 ==
    (lastEvent = "mousemove" /\ row_dragging) => SumsTo100(ckpHeight, plotHeight)

\* C8: a pointer-up with no drag flag set changes no flag, no panel extent and
\* no other page state.
C8_ReleaseWithoutDragIsNoOp ==
    [][(documentMouseup /\ ~dragging /\ ~col_dragging /\ ~row_dragging)
         => UNCHANGED <<dragging, col_dragging, row_dragging, moveHandlers,
                        pdfWidth, pdfPage, leftWidth, rightWidth, ckpHeight,
                        plotHeight>>]_vars

\* C10: during a column drag, a pointer-move at position x inside a viewport of
\* width W (0 <= x <= W) sets container-left width to (x / W * 100)% and
\* container-right width to (100 - x / W * 100)% with pdf-container at "0%"
\* (x = 300, W = 1000: "30%" and "70%"), and the pointer-up that follows sets
\* pdf-container width to "100%".
C10_ColumnMoveSetsShares ==
    /\ [][\A e \in MoveEvents :
            (col_dragging /\ e.pageX <= viewport.innerWidth /\ documentMousemove(e))
              => /\ leftWidth'.d > 0 /\ rightWidth'.d > 0
                 /\ leftWidth'.n * viewport.innerWidth
                      = 100 * e.pageX * leftWidth'.d
                 /\ rightWidth'.n * viewport.innerWidth
                      = (100 * viewport.innerWidth - 100 * e.pageX) * rightWidth'.d
                 /\ pdfWidth' = "0%"
                 /\ (e.pageX = 300 /\ viewport.innerWidth = 1000)
                      => (leftWidth' = Pct(30) /\ rightWidth' = Pct(70))]_vars
    /\ [][(documentMouseup /\ col_dragging) => pdfWidth' = "100%"]_vars

\* the scenario's state after the move: 30% / 70%, pdf-container collapsed
C10_Witness ==
    /\ lastEvent = "mousemove"
    /\ viewport.innerWidth = 1000
    /\ col_dragging
    /\ leftWidth = Pct(30)
    /\ rightWidth = Pct(70)
    /\ pdfWidth = "0%"

\* C12: the bars do not interfere: a release resets every active flag (each
\* checked on its own) and no inactive one, a press on one bar leaves the other
\* bar's flag alone, a move during a row drag alone leaves the widths alone and
\* a move during a column drag alone leaves the heights alone.
C12_BarsDoNotInterfere ==
    [][/\ documentMouseup =>
            /\ col_dragging => ~col_dragging'
            /\ row_dragging => ~row_dragging'
       /\ colDragbarMousedown => row_dragging' = row_dragging
       /\ rowDragbarMousedown => col_dragging' = col_dragging
       /\ (lastEvent' = "mousemove" /\ Mousemove /\ row_dragging
             /\ ~col_dragging /\ ~dragging)
            => UNCHANGED <<leftWidth, rightWidth>>
       /\ (lastEvent' = "mousemove" /\ Mousemove /\ col_dragging /\ ~row_dragging)
            => UNCHANGED <<ckpHeight, plotHeight>>]_vars

\* C13: a pointer-move handled while no drag flag is true changes no panel
\* extent, whatever handlers earlier presses have left attached.
C13_MoveWithoutDragChangesNothing ==
    [][(lastEvent' = "mousemove" /\ ~dragging /\ ~col_dragging /\ ~row_dragging
          /\ Mousemove)
         => UNCHANGED <<pdfWidth, leftWidth, rightWidth, ckpHeight, plotHeight>>]_vars

\* a move after two finished gestures: both handlers attached, extents kept
C13_Witness ==
    /\ lastEvent = "mousemove"
    /\ ~dragging /\ ~col_dragging /\ ~row_dragging
    /\ Len(moveHandlers) = 2
    /\ leftWidth = Pct(30)
    /\ pdfWidth = "100%"

\* the extent, if set, lies in [0, 100]
InRange(a) == a.d > 0 => (0 <= a.n /\ a.n <= 100 * a.d)

\* C14: after every pointer-move during an active drag, the percentage and its
\* complement both lie in [0, 100].
C14_SharesWithin0And100 ==
    /\ (lastEvent = "mousemove" /\ (col_dragging \/ dragging))
          => (InRange(leftWidth) /\ InRange(rightWidth))
    /\ (lastEvent = "mousemove" /\ row_dragging)
          => (InRange(ckpHeight) /\ InRange(plotHeight))

\* C15: pdf-container width is "0%" only while col_dragging or dragging is true.
C15_CollapsedOnlyWhileColumnDrag ==
    pdfWidth = "0%" => (col_dragging \/ dragging)

\* a column drag in progress with the panel collapsed
C15_Witness ==
    /\ pdfWidth = "0%"
    /\ col_dragging
    /\ ~dragging
    /\ lastEvent = "mousemove"

\* the handlers with one handler per bar: the first registered of each kind
RECURSIVE OnePerBar(_)
OnePerBar(handlers) ==
    IF handlers = <<>> THEN <<>>
    ELSE LET front == OnePerBar(SubSeq(handlers, 1, Len(handlers) - 1))
             last == handlers[Len(handlers)]
         IN IF \E k \in DOMAIN front : front[k] = last
            THEN front ELSE Append(front, last)

\* C16: every press registers one more move handler and none is ever removed,
\* and a pointer-move run through the accumulated handlers leaves the same
\* extents as one run through a single handler per bar.
C16_AccumulatedHandlersIdempotent ==
    /\ [](\A e \in MoveEvents :
            RunMoveHandlers(moveHandlers, Dom, e)
              = RunMoveHandlers(OnePerBar(moveHandlers), Dom, e))
    /\ [][/\ lastEvent' = "mousedown" => Len(moveHandlers') = Len(moveHandlers) + 1
          /\ SubSeq(moveHandlers', 1, Len(moveHandlers)) = moveHandlers]_vars

\* a move during the second drag of the column bar: two col handlers attached
C16_Witness ==
    /\ moveHandlers = <<"col-dragbar", "col-dragbar">>
    /\ col_dragging
    /\ lastEvent = "mousemove"
    /\ leftWidth = Pct(60)
    /\ rightWidth = Pct(40)

\* C17: a pointer-up changes none of the four resized extents, and the extents
\* it leaves still add up to 100.
C17_ReleaseKeepsExtents ==
    [][documentMouseup =>
         /\ UNCHANGED <<leftWidth, rightWidth, ckpHeight, plotHeight>>
         /\ leftWidth'.d > 0 => SumsTo100(leftWidth', rightWidth')
         /\ ckpHeight'.d > 0 => SumsTo100(ckpHeight', plotHeight')]_vars

----------------------------------------------------------------------------
(* DropBox properties, checked under SpecDropBox *)

\* the style the drop target shows
TargetStyle == [border |-> dropStyle.border, background |-> dropStyle.background,
                color |-> contColor]

\* C11: the drop target is in the hovering style after dragenter and back in the
\* idle (default) style after each of dragleave, dragend, mouseout and drop; it
\* is never left hovering after one of those four, and it shows no third style
\* once an event has been handled.
C11_DropTargetTwoStates ==
    /\ lastDropEvent = "dragenter" => TargetStyle = HoverStyle
    /\ lastDropEvent \in LeaveEvents =>
          (TargetStyle = IdleStyle /\ TargetStyle # HoverStyle)
    /\ lastDropEvent # "none" => TargetStyle \in {IdleStyle, HoverStyle}

\* a file was dropped on the input: the target is idle again and the upload runs
C11_Witness ==
    /\ lastDropEvent = "drop"
    /\ TargetStyle = IdleStyle
    /\ Len(uploads) = 1
    /\ uploads[1].file

====
